---- MODULE Spec2Model ----
(***************************************************************************)
(* SnapVault (src/main.py): one run of main() from the start notification  *)
(* to the end of its finally block.  The run organizes the image files of  *)
(* the source tree into dated folders of a local temporary folder          *)
(* (organize_photos), then copies that folder to each selected NAS share   *)
(* by mounting the share and running rsync (copy_to_destinations,          *)
(* copy_folder_to_smb), notifies, and cleans the temporary folder up.      *)
(*                                                                         *)
(* File names are modelled as [stem, suffix] where a stem is a sequence:   *)
(* <<"IMG_0001">> is the string "IMG_0001" and Append(stem, k) is the      *)
(* string f"{stem}_{k}", so that the source file IMG_0001_1.jpg and the    *)
(* first disambiguated name of IMG_0001.jpg are the same name.             *)
(*                                                                         *)
(* The environment (mkdir, copy2, mount, rsync, umount, rmtree) may fail;  *)
(* every failure the code handles is a nondeterministic branch, and at     *)
(* most MaxFaults of them happen in one run.                               *)
(***************************************************************************)
EXTENDS Integers, Sequences, FiniteSets, TLC

\* Bounds of the model.
MaxFiles == 3
MaxFaults == 2
MaxNotifyFiles == 2
MaxEnumFiles == 2
MaxMountFiles == 1
MaxStale == 2

Dates == {"2024-05-01", "2024-05-02"}

\* get_image_files: the allow-list of extensions (lines 320-322).
image_extensions ==
    {".jpg", ".jpeg", ".png", ".raw", ".cr2", ".nef", ".arw", ".dng",
     ".orf", ".rw2", ".raf", ".heic", ".tif", ".tiff", ".gif", ".bmp"}

\* str.lower() on the suffixes that occur in the model (line 330).
Lower(s) == CASE s = ".JPG" -> ".jpg" [] OTHER -> s

\* The files a source tree is built from: base name (stem, suffix) and the
\* capture date get_date_taken returns for it.
SourceEntries ==
    { [stem |-> <<"IMG_0001">>,    suffix |-> ".jpg", date |-> "2024-05-01"],
      [stem |-> <<"IMG_0001", 1>>, suffix |-> ".jpg", date |-> "2024-05-01"],
      [stem |-> <<"IMG_0001">>,    suffix |-> ".JPG", date |-> "2024-05-02"],
      [stem |-> <<"notes">>,       suffix |-> ".txt", date |-> "2024-05-01"] }

RECURSIVE SeqsUpTo(_, _)
SeqsUpTo(S, n) ==
    IF n = 0 THEN { <<>> }
    ELSE LET shorter == SeqsUpTo(S, n - 1)
         IN  shorter \cup { Append(s, x) : s \in shorter, x \in S }

SourceTrees == SeqsUpTo(SourceEntries, MaxFiles)

\* copy_to_destinations: all_destinations (lines 406-419).  The storage
\* share is configured with a base path, the editing share with none.
all_destinations ==
    << [name |-> "Long-term storage", share |-> "storage_share",
        path |-> "Photos", filter |-> "storage"],
       [name |-> "Editing SSD", share |-> "editing_share",
        path |-> "", filter |-> "editing"] >>

Shares == { all_destinations[k].share : k \in 1..Len(all_destinations) }

\* copy_to_destinations: the destination filter (lines 421-427).
Destinations(destination_filter) ==
    IF destination_filter \in {"storage", "editing"}
    THEN SelectSeq(all_destinations, LAMBDA x : x.filter = destination_filter)
    ELSE all_destinations

VARIABLES
    tree,             \* the source tree as rglob lists it (fixed for the run)
    source,           \* the files now under the source directory
    dest_filter,      \* args.destination
    pc,               \* position of main()
    image_files,      \* organize_photos: the enumerated files (paths)
    i,                \* organize_photos: position of the loop in image_files
    top_level,        \* temp_organize/<folder_name> exists
    date_dirs,        \* the dated folders under top_level
    temp_files,       \* the files under top_level
    date_counts,      \* organize_photos: date -> count
    stats,            \* <<>> or <<the statistics record>>
    organized_folder, \* main: organized_folder is not None
    d,                \* copy_to_destinations: position in destinations
    mounted,          \* share -> its mount point is mounted
    remote,           \* share -> [base, exists, files] of the run's folder
    success,          \* what copy_folder_to_smb returned
    notes,            \* the notifications sent, in order
    outcome,          \* "running", "Completed" or "Failed"
    faults,           \* environment failures so far
    \* history of the run, read by the properties only
    lastResolve,      \* the last name resolution: directory, desired, result
    firstFail,        \* loop position of the first file that failed, or 0
    dirErr,           \* the mkdir calls that failed with a non-collision error
    dirCollide,       \* a mkdir found its directory already there
    mount_log,        \* the shares the mount command was issued for
    didMount,         \* the current copy_folder_to_smb call mounted its share
    umount_log,       \* unmount commands of the current call: outcomes
    shipFail,         \* <<>> or <<[dest, remote]>> at the first failed rsync
    error,            \* the error main caught, "" if none
    organized_files,  \* the temporary folder's files when organize_photos returned
    found_existing,   \* the shares whose run folder was already there
    delivered,        \* for each notification sent: requests.post returned
    mkdir_log,        \* the mkdir calls issued, in order: [at, path]
    rerun,            \* <<>> or <<the files a second enumeration returned>>
    stale,            \* per share: the mounts left on its mount point
    checks,           \* copy_folder_to_smb: checks made by the wait loop
    stale_umount      \* the umount commands issued for a stale mount

vars == << tree, source, dest_filter, pc, image_files, i, top_level, date_dirs,
           temp_files, date_counts, stats, organized_folder, d, mounted,
           remote, success, notes, outcome, faults, lastResolve, firstFail,
           dirErr, dirCollide, mount_log, didMount, umount_log, shipFail,
           error, organized_files, found_existing, delivered, mkdir_log,
           rerun, stale, checks, stale_umount >>

orgVars == << image_files, i, top_level, date_dirs, temp_files, date_counts,
              stats, organized_folder, lastResolve, firstFail,
              organized_files >>
smbVars == << d, mounted, remote, success, mount_log, didMount, umount_log,
              shipFail, found_existing >>
inputVars == << tree, dest_filter >>

NoResolve == [dir |-> {}, desired |-> [stem |-> <<>>, suffix |-> ""],
              result |-> [stem |-> <<>>, suffix |-> ""]]

\* What a share holds before the run, seen when it is mounted: the base
\* path may or may not exist, and the run's folder may be left from an
\* earlier run.  Until a share is mounted the run knows nothing of it.
RemoteStates(dest) ==
    { [base |-> b, exists |-> e, files |-> {}] :
        b \in (IF dest.path = "" THEN {TRUE} ELSE BOOLEAN), e \in BOOLEAN }
    \ { [base |-> FALSE, exists |-> TRUE, files |-> {}] }

AbsentRemote(dest) ==
    [base |-> (dest.path = ""), exists |-> FALSE, files |-> {}]

DestOf(share) ==
    CHOOSE x \in { all_destinations[k] : k \in 1..Len(all_destinations) } :
        x.share = share

\* The state before the run, but for the mounts left on the mount points.
InitRun ==
    /\ tree \in SourceTrees
    /\ source = { [path |-> k, file |-> tree[k]] : k \in 1..Len(tree) }
    /\ dest_filter \in {"both", "storage", "editing"}
    /\ pc = "send_start"
    /\ image_files = <<>>
    /\ i = 1
    /\ top_level = FALSE
    /\ date_dirs = {}
    /\ temp_files = {}
    /\ date_counts = [dt \in {} |-> 0]
    /\ stats = <<>>
    /\ organized_folder = FALSE
    /\ d = 1
    /\ mounted = [s \in Shares |-> FALSE]
    /\ remote = [s \in Shares |-> AbsentRemote(DestOf(s))]
    /\ success = FALSE
    /\ notes = <<>>
    /\ outcome = "running"
    /\ faults = 0
    /\ lastResolve = NoResolve
    /\ firstFail = 0
    /\ dirErr = <<>>
    /\ dirCollide = FALSE
    /\ mount_log = <<>>
    /\ didMount = FALSE
    /\ umount_log = <<>>
    /\ shipFail = <<>>
    /\ error = ""
    /\ organized_files = {}
    /\ found_existing = {}
    /\ delivered = <<>>
    /\ mkdir_log = <<>>
    /\ rerun = <<>>
    /\ checks = 0
    /\ stale_umount = [s \in Shares |-> <<>>]

\* No mount point has a mount left on it.
NoStale == [s \in Shares |-> 0]

Init == InitRun /\ stale = NoStale

\* A mkdir call is issued for a path; at is "local" or the share.
log_mkdir(log, at, path) == Append(log, [at |-> at, path |-> path])

\* if remote_path: dest_path.mkdir(...) (lines 225-227) is issued only for
\* a destination configured with a base path.
log_base_mkdir(log, dest) ==
    IF dest.path # "" THEN log_mkdir(log, dest.share, "base_path") ELSE log

\* The environment may fail once more.
MayFail == faults < MaxFaults

----------------------------------------------------------------------------
\* main: the start notification (lines 535-536).
SendStart ==
    /\ pc = "send_start"
    /\ notes' = Append(notes, "start")
    /\ pc' = "temp_dir"
    /\ delivered' = Append(delivered, TRUE)
    /\ UNCHANGED << source, outcome, error, faults, dirErr, dirCollide >>
    /\ UNCHANGED << orgVars, smbVars, inputVars >>
    /\ UNCHANGED << mkdir_log, rerun >>
    /\ UNCHANGED << stale, checks, stale_umount >>

\* main: temp_dir.mkdir(exist_ok=True) (lines 540-545), before the try.
TempDir ==
    /\ pc = "temp_dir"
    /\ mkdir_log' = log_mkdir(mkdir_log, "local", "temp_dir")
    /\ pc' = "organize"
    /\ UNCHANGED << source, notes, outcome, error, faults, dirErr, dirCollide >>
    /\ UNCHANGED << orgVars, smbVars, inputVars >>
    /\ UNCHANGED << delivered, rerun >>
    /\ UNCHANGED << stale, checks, stale_umount >>

\* main: temp_dir.mkdir raises (line 543).  The call is outside the try
\* statement of line 547, so the exception leaves main: no handler and no
\* finally block runs.
TempDirFails ==
    /\ pc = "temp_dir"
    /\ MayFail
    /\ faults' = faults + 1
    /\ dirErr' = Append(dirErr, "temp_dir")
    /\ mkdir_log' = log_mkdir(mkdir_log, "local", "temp_dir")
    /\ pc' = "crashed"
    /\ UNCHANGED << source, notes, outcome, error, dirCollide >>
    /\ UNCHANGED << orgVars, smbVars, inputVars >>
    /\ UNCHANGED << delivered, rerun >>
    /\ UNCHANGED << stale, checks, stale_umount >>

\* get_image_files (lines 318-334): the files of the tree, in rglob's order,
\* whose lower-cased suffix is an image extension.
get_image_files(listing, src) ==
    SelectSeq([k \in 1..Len(listing) |-> k],
              LAMBDA k : /\ \E f \in src : f.path = k
                         /\ Lower(listing[k].suffix) \in image_extensions)

\* img_file.name
Name(file) == [stem |-> file.stem, suffix |-> file.suffix]

\* The names that exist in the dated folder dt of the temporary folder.
DirNames(files, dt) == { f.name : f \in { g \in files : g.date = dt } }

\* organize_photos, "Handle duplicate filenames" (lines 362-370): probe
\* stem_1, stem_2, ... while the candidate exists.
RECURSIVE Probe(_, _, _, _)
Probe(dir, name, dest_file, counter) ==
    IF dest_file \in dir
    THEN Probe(dir, name,
               [stem |-> Append(name.stem, counter), suffix |-> name.suffix],
               counter + 1)
    ELSE dest_file

\* Mutants of the name resolution: no probing at all, and a counter that
\* starts at 2.
dest_file_name_no_probe(dir, name) == name
dest_file_name_from_2(dir, name) ==
    IF name \in dir
    THEN Probe(dir, name,
               [stem |-> Append(name.stem, 2), suffix |-> name.suffix], 3)
    ELSE name

dest_file_name(dir, name) == Probe(dir, name, name, 1)

\* Mutant of copy2: shutil.move, which takes the file off the source.
move_source(src, path) == { f \in src : f.path # path }

\* shutil.copy2(img_file, dest_file) (line 373) reads the source file and
\* leaves the source directory as it is.
copy2_source(src, path) == src

\* A variant of the count below that forgets the earlier files of the date.
count_date_overwrites(counts, dt) ==
    [x \in DOMAIN counts \cup {dt} |-> IF x = dt THEN 1 ELSE counts[x]]

\* date_counts[date_str] = date_counts.get(date_str, 0) + 1 (line 374)
count_date(counts, dt) ==
    [x \in DOMAIN counts \cup {dt} |->
        IF x = dt THEN (IF dt \in DOMAIN counts THEN counts[dt] ELSE 0) + 1
        ELSE counts[x]]

\* organize_photos: the statistics it returns (lines 390-394).
make_stats(files, counts) ==
    [total_photos |-> Len(files),
     date_folders |-> Cardinality(DOMAIN counts),
     date_breakdown |-> counts]

\* organize_photos: top_level.mkdir fails (line 340); the exception leaves
\* organize_photos and is caught by main (line 570).
OrganizeTopLevelFails ==
    /\ pc = "organize"
    /\ MayFail
    /\ faults' = faults + 1
    /\ dirErr' = Append(dirErr, "top_level")
    /\ pc' = "except"
    /\ error' = "top_level mkdir failed"
    /\ mkdir_log' = log_mkdir(mkdir_log, "local", "top_level")
    /\ UNCHANGED << source, notes, outcome, dirCollide >>
    /\ UNCHANGED << orgVars, smbVars, inputVars >>
    /\ UNCHANGED << delivered, rerun >>
    /\ UNCHANGED << stale, checks, stale_umount >>

\* Mutant: with no image file organize_photos still returns top_level.
OrganizeNoImagesGoesOn ==
    /\ pc = "organize"
    /\ get_image_files(tree, source) = <<>>
    /\ top_level' = TRUE
    /\ image_files' = <<>>
    /\ pc' = "organize_loop"
    /\ mkdir_log' = log_mkdir(mkdir_log, "local", "top_level")
    /\ UNCHANGED << source, notes, outcome, error, faults, dirErr, dirCollide >>
    /\ UNCHANGED << i, date_dirs, temp_files, date_counts, stats,
                    organized_folder, lastResolve, firstFail, organized_files >>
    /\ UNCHANGED << smbVars, inputVars >>
    /\ UNCHANGED << delivered, rerun >>
    /\ UNCHANGED << stale, checks, stale_umount >>

\* organize_photos: no image file is found, it returns (None, {}) and main
\* raises "no images found" (lines 345-350, 551-552).
OrganizeNoImages ==
    /\ pc = "organize"
    /\ get_image_files(tree, source) = <<>>
    /\ top_level' = TRUE
    /\ image_files' = <<>>
    /\ pc' = "except"
    /\ error' = "no images found"
    /\ mkdir_log' = log_mkdir(mkdir_log, "local", "top_level")
    /\ UNCHANGED << source, notes, outcome, faults, dirErr, dirCollide >>
    /\ UNCHANGED << i, date_dirs, temp_files, date_counts, stats,
                    organized_folder, lastResolve, firstFail, organized_files >>
    /\ UNCHANGED << smbVars, inputVars >>
    /\ UNCHANGED << delivered, rerun >>
    /\ UNCHANGED << stale, checks, stale_umount >>

\* organize_photos: the files are enumerated and the loop starts.
OrganizeEnumerate ==
    /\ pc = "organize"
    /\ get_image_files(tree, source) # <<>>
    /\ top_level' = TRUE
    /\ image_files' = get_image_files(tree, source)
    /\ pc' = "organize_loop"
    /\ mkdir_log' = log_mkdir(mkdir_log, "local", "top_level")
    /\ UNCHANGED << source, notes, outcome, error, faults, dirErr, dirCollide >>
    /\ UNCHANGED << i, date_dirs, temp_files, date_counts, stats,
                    organized_folder, lastResolve, firstFail, organized_files >>
    /\ UNCHANGED << smbVars, inputVars >>
    /\ UNCHANGED << delivered, rerun >>
    /\ UNCHANGED << stale, checks, stale_umount >>

\* The loop body's inputs: the file, its date folder, its resolved name.
ImgFile == tree[image_files[i]]
DateStr == ImgFile.date
DestName == dest_file_name(DirNames(temp_files, DateStr), Name(ImgFile))
Resolution ==
    [dir |-> DirNames(temp_files, DateStr), desired |-> Name(ImgFile),
     result |-> DestName]

\* A variant of the iteration below that creates a dated folder only the
\* first time it is needed.
OrganizeFileMemoized ==
    /\ pc = "organize_loop"
    /\ i <= Len(image_files)
    /\ date_dirs' = date_dirs \cup {DateStr}
    /\ dirCollide' = (dirCollide \/ DateStr \in date_dirs)
    /\ lastResolve' = Resolution
    /\ temp_files' = temp_files \cup
          { [date |-> DateStr, name |-> DestName, src |-> image_files[i],
             complete |-> TRUE] }
    /\ source' = copy2_source(source, image_files[i])
    /\ date_counts' = count_date(date_counts, DateStr)
    /\ i' = i + 1
    /\ mkdir_log' = (IF DateStr \in date_dirs THEN mkdir_log
                     ELSE log_mkdir(mkdir_log, "local", DateStr))
    /\ UNCHANGED << pc, notes, outcome, error, faults, dirErr >>
    /\ UNCHANGED << image_files, top_level, stats, organized_folder, firstFail,
                    organized_files >>
    /\ UNCHANGED << smbVars, inputVars >>
    /\ UNCHANGED << delivered, rerun >>
    /\ UNCHANGED << stale, checks, stale_umount >>

\* One iteration of the loop, the file copied (lines 356-377).
OrganizeFile ==
    /\ pc = "organize_loop"
    /\ i <= Len(image_files)
    /\ date_dirs' = date_dirs \cup {DateStr}
    /\ dirCollide' = (dirCollide \/ DateStr \in date_dirs)
    /\ lastResolve' = Resolution
    /\ temp_files' = temp_files \cup
          { [date |-> DateStr, name |-> DestName, src |-> image_files[i],
             complete |-> TRUE] }
    /\ source' = copy2_source(source, image_files[i])
    /\ date_counts' = count_date(date_counts, DateStr)
    /\ i' = i + 1
    /\ mkdir_log' = log_mkdir(mkdir_log, "local", DateStr)
    /\ UNCHANGED << pc, notes, outcome, error, faults, dirErr >>
    /\ UNCHANGED << image_files, top_level, stats, organized_folder, firstFail,
                    organized_files >>
    /\ UNCHANGED << smbVars, inputVars >>
    /\ UNCHANGED << delivered, rerun >>
    /\ UNCHANGED << stale, checks, stale_umount >>

\* One iteration in which date_folder.mkdir fails with an error other than
\* "exists": the handler logs it and the loop goes on (lines 360, 379-381).
OrganizeFileMkdirFails ==
    /\ pc = "organize_loop"
    /\ i <= Len(image_files)
    /\ MayFail
    /\ faults' = faults + 1
    /\ dirErr' = Append(dirErr, "date_folder")
    /\ firstFail' = IF firstFail = 0 THEN i ELSE firstFail
    /\ i' = i + 1
    /\ mkdir_log' = log_mkdir(mkdir_log, "local", DateStr)
    /\ UNCHANGED << source, pc, notes, outcome, error, dirCollide >>
    /\ UNCHANGED << image_files, top_level, date_dirs, temp_files, date_counts,
                    stats, organized_folder, lastResolve, organized_files >>
    /\ UNCHANGED << smbVars, inputVars >>
    /\ UNCHANGED << delivered, rerun >>
    /\ UNCHANGED << stale, checks, stale_umount >>

\* Mutant: the handler of a failed copy re-raises, and main catches it.
OrganizeFileCopyAborts ==
    /\ pc = "organize_loop"
    /\ i <= Len(image_files)
    /\ MayFail
    /\ faults' = faults + 1
    /\ date_dirs' = date_dirs \cup {DateStr}
    /\ dirCollide' = (dirCollide \/ DateStr \in date_dirs)
    /\ lastResolve' = Resolution
    /\ firstFail' = IF firstFail = 0 THEN i ELSE firstFail
    /\ i' = i + 1
    /\ pc' = "except"
    /\ error' = "copy2 failed"
    /\ mkdir_log' = log_mkdir(mkdir_log, "local", DateStr)
    /\ UNCHANGED << source, notes, outcome, dirErr >>
    /\ UNCHANGED << image_files, top_level, temp_files, date_counts, stats,
                    organized_folder, organized_files >>
    /\ UNCHANGED << smbVars, inputVars >>
    /\ UNCHANGED << delivered, rerun >>
    /\ UNCHANGED << stale, checks, stale_umount >>

\* One iteration in which shutil.copy2 fails, leaving nothing or a part of
\* the file at dest_file: the handler logs it and the loop goes on
\* (lines 373, 379-381).
OrganizeFileCopyFails ==
    /\ pc = "organize_loop"
    /\ i <= Len(image_files)
    /\ MayFail
    /\ faults' = faults + 1
    /\ date_dirs' = date_dirs \cup {DateStr}
    /\ dirCollide' = (dirCollide \/ DateStr \in date_dirs)
    /\ lastResolve' = Resolution
    /\ \E partial \in BOOLEAN :
         temp_files' = IF partial
                       THEN temp_files \cup
                            { [date |-> DateStr, name |-> DestName,
                               src |-> image_files[i], complete |-> FALSE] }
                       ELSE temp_files
    /\ firstFail' = IF firstFail = 0 THEN i ELSE firstFail
    /\ i' = i + 1
    /\ mkdir_log' = log_mkdir(mkdir_log, "local", DateStr)
    /\ UNCHANGED << source, pc, notes, outcome, error, dirErr >>
    /\ UNCHANGED << image_files, top_level, date_counts, stats,
                    organized_folder, organized_files >>
    /\ UNCHANGED << smbVars, inputVars >>
    /\ UNCHANGED << delivered, rerun >>
    /\ UNCHANGED << stale, checks, stale_umount >>

\* organize_photos returns top_level and the statistics (lines 383-396).
OrganizeReturn ==
    /\ pc = "organize_loop"
    /\ i > Len(image_files)
    /\ stats' = << make_stats(image_files, date_counts) >>
    /\ organized_folder' = TRUE
    /\ organized_files' = temp_files
    /\ pc' = "copy"
    /\ UNCHANGED << source, notes, outcome, error, faults, dirErr, dirCollide >>
    /\ UNCHANGED << image_files, i, top_level, date_dirs, temp_files,
                    date_counts, lastResolve, firstFail >>
    /\ UNCHANGED << smbVars, inputVars >>
    /\ UNCHANGED << delivered, mkdir_log, rerun >>
    /\ UNCHANGED << stale, checks, stale_umount >>

Organize ==
    \/ OrganizeTopLevelFails
    \/ OrganizeNoImages
    \/ OrganizeEnumerate
    \/ OrganizeFile
    \/ OrganizeFileMkdirFails
    \/ OrganizeFileCopyFails
    \/ OrganizeReturn

----------------------------------------------------------------------------
\* copy_to_destinations: the destination of the current iteration.
Dest == Destinations(dest_filter)[d]
Share == Dest.share

\* The first failed rsync is remembered with the shares as it left them.
NoteShipFail(rem) ==
    IF shipFail = <<>> THEN << [dest |-> d, remote |-> rem] >> ELSE shipFail

\* for _ in range(5) (line 184): the checks the wait loop may make.
MaxChecks == 5

\* umount or umount -l of the mount point succeeded: the mount on top of
\* it is gone.
unmount_one(st, share) == [st EXCEPT ![share] = st[share] - 1]

\* copy_folder_to_smb: the mount point is already mounted and umount
\* succeeds (lines 160-166, 178-182); the wait loop follows.
StaleUnmount ==
    /\ pc = "copy"
    /\ stale[Share] > 0
    /\ stale_umount' = [stale_umount EXCEPT ![Share] = << "umount ok" >>]
    /\ stale' = unmount_one(stale, Share)
    /\ checks' = 0
    /\ pc' = "smb_wait"
    /\ UNCHANGED << faults, success >>
    /\ UNCHANGED << source, notes, outcome, error, dirErr, dirCollide >>
    /\ UNCHANGED << d, mounted, remote, mount_log, didMount, umount_log,
                    shipFail, found_existing >>
    /\ UNCHANGED << orgVars, inputVars >>
    /\ UNCHANGED << delivered, mkdir_log, rerun >>

\* The mount point is already mounted, umount fails and the lazy unmount
\* succeeds (lines 167-172).
StaleLazyUnmount ==
    /\ pc = "copy"
    /\ stale[Share] > 0
    /\ MayFail
    /\ faults' = faults + 1
    /\ stale_umount' = [stale_umount EXCEPT
                          ![Share] = << "umount failed", "lazy ok" >>]
    /\ stale' = unmount_one(stale, Share)
    /\ checks' = 0
    /\ pc' = "smb_wait"
    /\ UNCHANGED << success >>
    /\ UNCHANGED << source, notes, outcome, error, dirErr, dirCollide >>
    /\ UNCHANGED << d, mounted, remote, mount_log, didMount, umount_log,
                    shipFail, found_existing >>
    /\ UNCHANGED << orgVars, inputVars >>
    /\ UNCHANGED << delivered, mkdir_log, rerun >>

\* The mount point is already mounted and both unmounts fail: the call
\* returns False (lines 173-176), before the try statement of line 222.
StaleUnmountFails ==
    /\ pc = "copy"
    /\ stale[Share] > 0
    /\ faults + 2 <= MaxFaults
    /\ faults' = faults + 2
    /\ stale_umount' = [stale_umount EXCEPT
                          ![Share] = << "umount failed", "lazy failed" >>]
    /\ checks' = 0
    /\ success' = FALSE
    /\ pc' = "copy_result"
    /\ UNCHANGED << stale >>
    /\ UNCHANGED << source, notes, outcome, error, dirErr, dirCollide >>
    /\ UNCHANGED << d, mounted, remote, mount_log, didMount, umount_log,
                    shipFail, found_existing >>
    /\ UNCHANGED << orgVars, inputVars >>
    /\ UNCHANGED << delivered, mkdir_log, rerun >>

\* The wait loop: a check finds the mount point in the output of mount,
\* and the loop sleeps a second (lines 184-189), during which the mount
\* on top of the mount point may go away.
WaitCheckMounted ==
    /\ pc = "smb_wait"
    /\ checks < MaxChecks
    /\ stale[Share] > 0
    /\ checks' = checks + 1
    /\ \/ stale' = stale
       \/ stale' = unmount_one(stale, Share)
    /\ UNCHANGED << faults, success, pc, stale_umount >>
    /\ UNCHANGED << source, notes, outcome, error, dirErr, dirCollide >>
    /\ UNCHANGED << d, mounted, remote, mount_log, didMount, umount_log,
                    shipFail, found_existing >>
    /\ UNCHANGED << orgVars, inputVars >>
    /\ UNCHANGED << delivered, mkdir_log, rerun >>

\* The wait loop ends without a break: the call returns False (lines
\* 190-192).
WaitGiveUp ==
    /\ pc = "smb_wait"
    /\ checks = MaxChecks
    /\ success' = FALSE
    /\ pc' = "copy_result"
    /\ UNCHANGED << faults, stale, checks, stale_umount >>
    /\ UNCHANGED << source, notes, outcome, error, dirErr, dirCollide >>
    /\ UNCHANGED << d, mounted, remote, mount_log, didMount, umount_log,
                    shipFail, found_existing >>
    /\ UNCHANGED << orgVars, inputVars >>
    /\ UNCHANGED << delivered, mkdir_log, rerun >>

StaleMount ==
    \/ StaleUnmount
    \/ StaleLazyUnmount
    \/ StaleUnmountFails
    \/ WaitCheckMounted
    \/ WaitGiveUp

\* A variant of the mount below that does not look at the mount point.
SmbMountBlind ==
    /\ pc \in {"copy", "smb_wait"}
    /\ checks' = (IF pc = "copy" THEN 1 ELSE checks + 1)
    /\ mounted' = [mounted EXCEPT ![Share] = TRUE]
    /\ \E found \in RemoteStates(Dest) :
         remote' = [remote EXCEPT ![Share] = found]
    /\ mount_log' = Append(mount_log, Share)
    /\ didMount' = TRUE
    /\ umount_log' = <<>>
    /\ pc' = "smb_dest"
    /\ UNCHANGED << source, notes, outcome, error, faults, dirErr, dirCollide >>
    /\ UNCHANGED << d, success, shipFail, found_existing >>
    /\ UNCHANGED << orgVars, inputVars >>
    /\ UNCHANGED << delivered, mkdir_log, rerun >>
    /\ UNCHANGED << stale, stale_umount >>

\* A variant of the mount below in which the run keeps the session of its
\* first destination and opens no other.
SmbMountOnce ==
    /\ pc \in {"copy", "smb_wait"}
    /\ pc = "smb_wait" => checks < MaxChecks
    /\ stale[Share] = 0
    /\ checks' = (IF pc = "copy" THEN 1 ELSE checks + 1)
    /\ mounted' = [mounted EXCEPT ![Share] = TRUE]
    /\ \E found \in RemoteStates(Dest) :
         remote' = [remote EXCEPT ![Share] = found]
    /\ mount_log' = (IF mount_log = <<>> THEN Append(mount_log, Share)
                     ELSE mount_log)
    /\ didMount' = TRUE
    /\ umount_log' = <<>>
    /\ pc' = "smb_dest"
    /\ UNCHANGED << source, notes, outcome, error, faults, dirErr, dirCollide >>
    /\ UNCHANGED << d, success, shipFail, found_existing >>
    /\ UNCHANGED << orgVars, inputVars >>
    /\ UNCHANGED << delivered, mkdir_log, rerun >>
    /\ UNCHANGED << stale, stale_umount >>

\* copy_folder_to_smb: a check of the wait loop does not find the mount
\* point in the output of mount, the loop breaks, the mount point is
\* created and the mount command succeeds (lines 184-187, 194-216).
SmbMount ==
    /\ pc \in {"copy", "smb_wait"}
    /\ pc = "smb_wait" => checks < MaxChecks
    /\ stale[Share] = 0
    /\ checks' = (IF pc = "copy" THEN 1 ELSE checks + 1)
    /\ mounted' = [mounted EXCEPT ![Share] = TRUE]
    /\ \E found \in RemoteStates(Dest) :
         remote' = [remote EXCEPT ![Share] = found]
    /\ mount_log' = Append(mount_log, Share)
    /\ didMount' = TRUE
    /\ umount_log' = <<>>
    /\ pc' = "smb_dest"
    /\ UNCHANGED << source, notes, outcome, error, faults, dirErr, dirCollide >>
    /\ UNCHANGED << d, success, shipFail, found_existing >>
    /\ UNCHANGED << orgVars, inputVars >>
    /\ UNCHANGED << delivered, mkdir_log, rerun >>
    /\ UNCHANGED << stale, stale_umount >>

\* copy_folder_to_smb: the mount command fails and the call returns False
\* (lines 217-220).
SmbMountFails ==
    /\ pc \in {"copy", "smb_wait"}
    /\ pc = "smb_wait" => checks < MaxChecks
    /\ stale[Share] = 0
    /\ checks' = (IF pc = "copy" THEN 1 ELSE checks + 1)
    /\ MayFail
    /\ faults' = faults + 1
    /\ mount_log' = Append(mount_log, Share)
    /\ didMount' = FALSE
    /\ umount_log' = <<>>
    /\ success' = FALSE
    /\ pc' = "copy_result"
    /\ UNCHANGED << source, notes, outcome, error, dirErr, dirCollide >>
    /\ UNCHANGED << d, mounted, remote, shipFail, found_existing >>
    /\ UNCHANGED << orgVars, inputVars >>
    /\ UNCHANGED << delivered, mkdir_log, rerun >>
    /\ UNCHANGED << stale, stale_umount >>

\* A variant of the base path below in which nothing is created.
mkdir_base_skipped(rem, dest) == rem

\* if remote_path: dest_path.mkdir(parents=True, exist_ok=True) (lines
\* 225-227): the base path exists afterwards.
mkdir_base(rem, dest) ==
    IF dest.path # "" THEN [rem EXCEPT !.base = TRUE] ELSE rem

\* copy_folder_to_smb: creating the base path fails; the handler at line
\* 275 returns False.
SmbBasePathFails ==
    /\ pc = "smb_dest"
    /\ Dest.path # ""
    /\ MayFail
    /\ faults' = faults + 1
    /\ dirErr' = Append(dirErr, "base_path")
    /\ success' = FALSE
    /\ pc' = "smb_finally"
    /\ mkdir_log' = log_base_mkdir(mkdir_log, Dest)
    /\ UNCHANGED << source, notes, outcome, error, dirCollide >>
    /\ UNCHANGED << d, mounted, remote, mount_log, didMount, umount_log,
                    shipFail, found_existing >>
    /\ UNCHANGED << orgVars, inputVars >>
    /\ UNCHANGED << delivered, rerun >>
    /\ UNCHANGED << stale, checks, stale_umount >>

\* Mutant: the early return for an existing folder leaves the function
\* without running the finally block.
SmbDestExistsNoFinally ==
    /\ pc = "smb_dest"
    /\ remote[Share].exists
    /\ remote' = [remote EXCEPT ![Share] = mkdir_base(remote[Share], Dest)]
    /\ dirCollide' = (dirCollide \/ (Dest.path # "" /\ remote[Share].base))
    /\ found_existing' = found_existing \cup {Share}
    /\ success' = TRUE
    /\ pc' = "copy_result"
    /\ mkdir_log' = log_base_mkdir(mkdir_log, Dest)
    /\ UNCHANGED << source, notes, outcome, error, faults, dirErr >>
    /\ UNCHANGED << d, mounted, mount_log, didMount, umount_log, shipFail >>
    /\ UNCHANGED << orgVars, inputVars >>
    /\ UNCHANGED << delivered, rerun >>
    /\ UNCHANGED << stale, checks, stale_umount >>

\* A variant of the check below that goes on to rsync into the folder it
\* found.
SmbDestExistsMerges ==
    /\ pc = "smb_dest"
    /\ remote[Share].exists
    /\ remote' = [remote EXCEPT ![Share] = mkdir_base(remote[Share], Dest)]
    /\ dirCollide' = (dirCollide \/ (Dest.path # "" /\ remote[Share].base))
    /\ found_existing' = found_existing \cup {Share}
    /\ success' = TRUE
    /\ pc' = "smb_rsync"
    /\ mkdir_log' = log_base_mkdir(mkdir_log, Dest)
    /\ UNCHANGED << source, notes, outcome, error, faults, dirErr >>
    /\ UNCHANGED << d, mounted, mount_log, didMount, umount_log, shipFail >>
    /\ UNCHANGED << orgVars, inputVars >>
    /\ UNCHANGED << delivered, rerun >>
    /\ UNCHANGED << stale, checks, stale_umount >>

\* copy_folder_to_smb: the run's folder is already on the share, and the
\* call returns True without copying (lines 229-234).
SmbDestExists ==
    /\ pc = "smb_dest"
    /\ remote[Share].exists
    /\ remote' = [remote EXCEPT ![Share] = mkdir_base(remote[Share], Dest)]
    /\ dirCollide' = (dirCollide \/ (Dest.path # "" /\ remote[Share].base))
    /\ found_existing' = found_existing \cup {Share}
    /\ success' = TRUE
    /\ pc' = "smb_finally"
    /\ mkdir_log' = log_base_mkdir(mkdir_log, Dest)
    /\ UNCHANGED << source, notes, outcome, error, faults, dirErr >>
    /\ UNCHANGED << d, mounted, mount_log, didMount, umount_log, shipFail >>
    /\ UNCHANGED << orgVars, inputVars >>
    /\ UNCHANGED << delivered, rerun >>
    /\ UNCHANGED << stale, checks, stale_umount >>

\* Mutant: the error of final_dest.mkdir is ignored and rsync runs.
SmbFinalMkdirIgnored ==
    /\ pc = "smb_dest"
    /\ ~remote[Share].exists
    /\ MayFail
    /\ faults' = faults + 1
    /\ remote' = [remote EXCEPT ![Share] = mkdir_base(remote[Share], Dest)]
    /\ dirCollide' = (dirCollide \/ (Dest.path # "" /\ remote[Share].base))
    /\ dirErr' = Append(dirErr, "final_dest")
    /\ pc' = "smb_rsync"
    /\ mkdir_log' = log_mkdir(log_base_mkdir(mkdir_log, Dest), Share, "final_dest")
    /\ UNCHANGED << source, notes, outcome, error >>
    /\ UNCHANGED << d, mounted, success, mount_log, didMount, umount_log,
                    shipFail, found_existing >>
    /\ UNCHANGED << orgVars, inputVars >>
    /\ UNCHANGED << delivered, rerun >>
    /\ UNCHANGED << stale, checks, stale_umount >>

\* copy_folder_to_smb: final_dest.mkdir fails (line 236); the handler at
\* line 275 returns False.
SmbFinalMkdirFails ==
    /\ pc = "smb_dest"
    /\ ~remote[Share].exists
    /\ MayFail
    /\ faults' = faults + 1
    /\ remote' = [remote EXCEPT ![Share] = mkdir_base(remote[Share], Dest)]
    /\ dirCollide' = (dirCollide \/ (Dest.path # "" /\ remote[Share].base))
    /\ dirErr' = Append(dirErr, "final_dest")
    /\ success' = FALSE
    /\ pc' = "smb_finally"
    /\ mkdir_log' = log_mkdir(log_base_mkdir(mkdir_log, Dest), Share, "final_dest")
    /\ UNCHANGED << source, notes, outcome, error >>
    /\ UNCHANGED << d, mounted, mount_log, didMount, umount_log, shipFail, found_existing >>
    /\ UNCHANGED << orgVars, inputVars >>
    /\ UNCHANGED << delivered, rerun >>
    /\ UNCHANGED << stale, checks, stale_umount >>

\* copy_folder_to_smb: the run's folder is created on the share (line 236).
SmbFinalMkdir ==
    /\ pc = "smb_dest"
    /\ ~remote[Share].exists
    /\ remote' = [remote EXCEPT
                    ![Share] = [mkdir_base(remote[Share], Dest)
                                  EXCEPT !.exists = TRUE]]
    /\ dirCollide' = (dirCollide \/ (Dest.path # "" /\ remote[Share].base))
    /\ pc' = "smb_rsync"
    /\ mkdir_log' = log_mkdir(log_base_mkdir(mkdir_log, Dest), Share, "final_dest")
    /\ UNCHANGED << source, notes, outcome, error, faults, dirErr >>
    /\ UNCHANGED << d, mounted, success, mount_log, didMount, umount_log,
                    shipFail, found_existing >>
    /\ UNCHANGED << orgVars, inputVars >>
    /\ UNCHANGED << delivered, rerun >>
    /\ UNCHANGED << stale, checks, stale_umount >>

\* Mutant: rsync reports success with one file left out.
rsync_skips_one(rem, files) ==
    [rem EXCEPT !.files =
        IF files = {} THEN {} ELSE files \ { CHOOSE f \in files : TRUE }]

\* rsync -avh <source>/ <final_dest>/ ending with return code 0: the whole
\* temporary folder is in the run's folder (lines 239-269).
rsync_all(rem, files) == [rem EXCEPT !.files = files]

\* A variant of the transfer below that ships a single file per call.
SmbRsyncOneFile ==
    /\ pc = "smb_rsync"
    /\ \E f \in temp_files :
         remote' = [remote EXCEPT ![Share] = rsync_all(remote[Share], {f})]
    /\ success' = TRUE
    /\ pc' = "smb_finally"
    /\ UNCHANGED << source, notes, outcome, error, faults, dirErr, dirCollide >>
    /\ UNCHANGED << d, mounted, mount_log, didMount, umount_log, shipFail, found_existing >>
    /\ UNCHANGED << orgVars, inputVars >>
    /\ UNCHANGED << delivered, mkdir_log, rerun >>
    /\ UNCHANGED << stale, checks, stale_umount >>

\* copy_folder_to_smb: rsync ends with return code 0 (lines 238-269).
SmbRsync ==
    /\ pc = "smb_rsync"
    /\ remote' = [remote EXCEPT ![Share] = rsync_all(remote[Share], temp_files)]
    /\ success' = TRUE
    /\ pc' = "smb_finally"
    /\ UNCHANGED << source, notes, outcome, error, faults, dirErr, dirCollide >>
    /\ UNCHANGED << d, mounted, mount_log, didMount, umount_log, shipFail, found_existing >>
    /\ UNCHANGED << orgVars, inputVars >>
    /\ UNCHANGED << delivered, mkdir_log, rerun >>
    /\ UNCHANGED << stale, checks, stale_umount >>

\* rsync ends with another return code, or cannot be started, having
\* transferred some of the files: the call returns False (lines 270-278).
SmbRsyncFails ==
    /\ pc = "smb_rsync"
    /\ MayFail
    /\ faults' = faults + 1
    /\ \E shipped \in SUBSET temp_files :
         /\ remote' = [remote EXCEPT ![Share].files = shipped]
         /\ shipFail' = NoteShipFail(remote')
    /\ success' = FALSE
    /\ pc' = "smb_finally"
    /\ UNCHANGED << source, notes, outcome, error, dirErr, dirCollide >>
    /\ UNCHANGED << d, mounted, mount_log, didMount, umount_log,
                    found_existing >>
    /\ UNCHANGED << orgVars, inputVars >>
    /\ UNCHANGED << delivered, mkdir_log, rerun >>
    /\ UNCHANGED << stale, checks, stale_umount >>

\* The finally block (lines 280-294): what is left mounted after the
\* unmount commands with the given outcomes.
after_umount(m, share, log) ==
    IF log[Len(log)] \in {"umount ok", "lazy ok"}
    THEN [m EXCEPT ![share] = FALSE]
    ELSE m

\* finally: umount succeeds.
SmbUnmount ==
    /\ pc = "smb_finally"
    /\ umount_log' = << "umount ok" >>
    /\ mounted' = after_umount(mounted, Share, umount_log')
    /\ pc' = "copy_result"
    /\ UNCHANGED << source, notes, outcome, error, faults, dirErr, dirCollide >>
    /\ UNCHANGED << d, remote, success, mount_log, didMount, shipFail, found_existing >>
    /\ UNCHANGED << orgVars, inputVars >>
    /\ UNCHANGED << delivered, mkdir_log, rerun >>
    /\ UNCHANGED << stale, checks, stale_umount >>

\* finally: umount fails and the lazy unmount succeeds (lines 286-290).
SmbLazyUnmount ==
    /\ pc = "smb_finally"
    /\ MayFail
    /\ faults' = faults + 1
    /\ umount_log' = << "umount failed", "lazy ok" >>
    /\ mounted' = after_umount(mounted, Share, umount_log')
    /\ pc' = "copy_result"
    /\ UNCHANGED << source, notes, outcome, error, dirErr, dirCollide >>
    /\ UNCHANGED << d, remote, success, mount_log, didMount, shipFail, found_existing >>
    /\ UNCHANGED << orgVars, inputVars >>
    /\ UNCHANGED << delivered, mkdir_log, rerun >>
    /\ UNCHANGED << stale, checks, stale_umount >>

\* finally: umount fails and so does the lazy unmount, whose return code
\* is not looked at (line 289).
SmbUnmountFails ==
    /\ pc = "smb_finally"
    /\ faults + 2 <= MaxFaults
    /\ faults' = faults + 2
    /\ umount_log' = << "umount failed", "lazy failed" >>
    /\ mounted' = after_umount(mounted, Share, umount_log')
    /\ pc' = "copy_result"
    /\ UNCHANGED << source, notes, outcome, error, dirErr, dirCollide >>
    /\ UNCHANGED << d, remote, success, mount_log, didMount, shipFail, found_existing >>
    /\ UNCHANGED << orgVars, inputVars >>
    /\ UNCHANGED << delivered, mkdir_log, rerun >>
    /\ UNCHANGED << stale, checks, stale_umount >>

CopyFolderToSmb ==
    \/ SmbMount
    \/ SmbMountFails
    \/ SmbBasePathFails
    \/ SmbDestExists
    \/ SmbFinalMkdirFails
    \/ SmbFinalMkdir
    \/ SmbRsync
    \/ SmbRsyncFails
    \/ SmbUnmount
    \/ SmbLazyUnmount
    \/ SmbUnmountFails

\* copy_to_destinations: the call returned True; the loop goes on to the
\* next destination or ends (lines 453-455, 465).
CopyNext ==
    /\ pc = "copy_result"
    /\ success
    /\ d' = d + 1
    /\ pc' = IF d + 1 > Len(Destinations(dest_filter)) THEN "success" ELSE "copy"
    /\ UNCHANGED << source, notes, outcome, error, faults, dirErr, dirCollide >>
    /\ UNCHANGED << mounted, remote, success, mount_log, didMount, umount_log,
                    shipFail, found_existing >>
    /\ UNCHANGED << orgVars, inputVars >>
    /\ UNCHANGED << delivered, mkdir_log, rerun >>
    /\ UNCHANGED << stale, checks, stale_umount >>

\* Mutant: a False return is logged and the loop goes on.
CopyRaiseSwallowed ==
    /\ pc = "copy_result"
    /\ ~success
    /\ d' = d + 1
    /\ pc' = IF d + 1 > Len(Destinations(dest_filter)) THEN "success" ELSE "copy"
    /\ UNCHANGED << source, notes, outcome, error, faults, dirErr, dirCollide >>
    /\ UNCHANGED << mounted, remote, success, mount_log, didMount, umount_log,
                    shipFail, found_existing >>
    /\ UNCHANGED << orgVars, inputVars >>
    /\ UNCHANGED << delivered, mkdir_log, rerun >>
    /\ UNCHANGED << stale, checks, stale_umount >>

\* copy_to_destinations: the call returned False; the loop raises and main
\* catches it (lines 456-463, 570).
CopyRaise ==
    /\ pc = "copy_result"
    /\ ~success
    /\ pc' = "except"
    /\ error' = "Failed to copy"
    /\ UNCHANGED << source, notes, outcome, faults, dirErr, dirCollide >>
    /\ UNCHANGED << orgVars, smbVars, inputVars >>
    /\ UNCHANGED << delivered, mkdir_log, rerun >>
    /\ UNCHANGED << stale, checks, stale_umount >>

----------------------------------------------------------------------------
\* main: the success notification (lines 557-568).
MainSuccess ==
    /\ pc = "success"
    /\ notes' = Append(notes, "success")
    /\ outcome' = "Completed"
    /\ pc' = "finally"
    /\ delivered' = Append(delivered, TRUE)
    /\ UNCHANGED << source, faults, dirErr, dirCollide, error >>
    /\ UNCHANGED << orgVars, smbVars, inputVars >>
    /\ UNCHANGED << mkdir_log, rerun >>
    /\ UNCHANGED << stale, checks, stale_umount >>

\* main: the exception handler (lines 570-582).
MainExcept ==
    /\ pc = "except"
    /\ notes' = Append(notes, "error")
    /\ outcome' = "Failed"
    /\ pc' = "finally"
    /\ delivered' = Append(delivered, TRUE)
    /\ UNCHANGED << source, faults, dirErr, dirCollide, error >>
    /\ UNCHANGED << orgVars, smbVars, inputVars >>
    /\ UNCHANGED << mkdir_log, rerun >>
    /\ UNCHANGED << stale, checks, stale_umount >>

\* shutil.rmtree(organized_folder) (line 589) removes the temporary
\* folder and nothing under the source directory.
rmtree_source(src) == src

\* main: finally, the temporary folder is removed (lines 584-591).
MainCleanup ==
    /\ pc = "finally"
    /\ organized_folder /\ top_level
    /\ top_level' = FALSE
    /\ date_dirs' = {}
    /\ temp_files' = {}
    /\ source' = rmtree_source(source)
    /\ pc' = "done"
    /\ UNCHANGED << notes, outcome, error, faults, dirErr, dirCollide >>
    /\ UNCHANGED << image_files, i, date_counts, stats, organized_folder,
                    lastResolve, firstFail, organized_files >>
    /\ UNCHANGED << smbVars, inputVars >>
    /\ UNCHANGED << delivered, mkdir_log, rerun >>
    /\ UNCHANGED << stale, checks, stale_umount >>

\* main: finally, rmtree fails and the handler logs it (lines 592-594).
MainCleanupFails ==
    /\ pc = "finally"
    /\ organized_folder /\ top_level
    /\ MayFail
    /\ faults' = faults + 1
    /\ pc' = "done"
    /\ UNCHANGED << source, notes, outcome, error, dirErr, dirCollide >>
    /\ UNCHANGED << orgVars, smbVars, inputVars >>
    /\ UNCHANGED << delivered, mkdir_log, rerun >>
    /\ UNCHANGED << stale, checks, stale_umount >>

\* main: finally, organized_folder is None and nothing is removed.
MainNoCleanup ==
    /\ pc = "finally"
    /\ ~(organized_folder /\ top_level)
    /\ pc' = "done"
    /\ UNCHANGED << source, notes, outcome, error, faults, dirErr, dirCollide >>
    /\ UNCHANGED << orgVars, smbVars, inputVars >>
    /\ UNCHANGED << delivered, mkdir_log, rerun >>
    /\ UNCHANGED << stale, checks, stale_umount >>

----------------------------------------------------------------------------
\* DiscordNotifier.send_message when requests.post raises, the notification
\* being the start, the success or the error one.  A variant in which the
\* exception leaves send_message and ends the run:
SendMessagePropagates ==
    /\ pc \in {"send_start", "success", "except"}
    /\ notes' = Append(notes, CASE pc = "send_start" -> "start"
                                [] pc = "success" -> "success"
                                [] pc = "except" -> "error")
    /\ delivered' = Append(delivered, FALSE)
    /\ pc' = "crashed"
    /\ UNCHANGED << source, outcome, faults, dirErr, dirCollide, error >>
    /\ UNCHANGED << orgVars, smbVars, inputVars >>
    /\ UNCHANGED << mkdir_log, rerun >>
    /\ UNCHANGED << stale, checks, stale_umount >>

\* DiscordNotifier.send_message when requests.post raises: the handler
\* logs the exception and returns (lines 48-51), and main goes on as it
\* does after a delivered notification (lines 536, 565, 573).
SendMessageRaises ==
    /\ pc \in {"send_start", "success", "except"}
    /\ notes' = Append(notes, CASE pc = "send_start" -> "start"
                                [] pc = "success" -> "success"
                                [] pc = "except" -> "error")
    /\ delivered' = Append(delivered, FALSE)
    /\ outcome' = (CASE pc = "send_start" -> outcome
                     [] pc = "success" -> "Completed"
                     [] pc = "except" -> "Failed")
    /\ pc' = (IF pc = "send_start" THEN "temp_dir" ELSE "finally")
    /\ UNCHANGED << source, faults, dirErr, dirCollide, error >>
    /\ UNCHANGED << orgVars, smbVars, inputVars >>
    /\ UNCHANGED << mkdir_log, rerun >>
    /\ UNCHANGED << stale, checks, stale_umount >>

Main ==
    \/ SendStart
    \/ TempDir
    \/ TempDirFails
    \/ CopyNext
    \/ CopyRaise
    \/ MainSuccess
    \/ MainExcept
    \/ MainCleanup
    \/ MainCleanupFails
    \/ MainNoCleanup

Next == Main \/ Organize \/ CopyFolderToSmb

Spec == Init /\ [][Next]_vars

\* The runs that may find mounts left on the mount points (up to MaxStale
\* on each), over the source trees of at most MaxMountFiles entries.
InitMount ==
    /\ InitRun
    /\ Len(tree) <= MaxMountFiles
    /\ stale \in [Shares -> 0..MaxStale]

NextMount == Next \/ StaleMount

SpecMount == InitMount /\ [][NextMount]_vars

\* source_dir.rglob('*') (line 329) yields the entries in the order the
\* file system lists them, and get_image_files does not sort: an
\* enumeration of the tree may visit its entries in any order.
rglob_orders(listing) ==
    { o \in [1..Len(listing) -> 1..Len(listing)] :
        \A a, b \in 1..Len(listing) : o[a] = o[b] => a = b }

\* get_image_files (lines 318-334) over one such order.
get_image_files_in(order, listing, src) ==
    SelectSeq(order,
              LAMBDA k : /\ \E f \in src : f.path = k
                         /\ Lower(listing[k].suffix) \in image_extensions)

\* The loop of organize_photos (lines 356-373) over an enumeration, every
\* copy succeeding: the dated folder and the name given to each file.
RECURSIVE assign_names(_, _, _)
assign_names(files, k, placed) ==
    IF k > Len(files) THEN placed
    ELSE LET f == tree[files[k]]
             nm == dest_file_name(DirNames(placed, f.date), Name(f))
         IN assign_names(files, k + 1,
                placed \cup { [date |-> f.date, name |-> nm,
                               src |-> files[k], complete |-> TRUE] })

\* A second run enumerates the source tree the first run left unchanged.
EnumerateAgain ==
    /\ pc = "done"
    /\ rerun = <<>>
    /\ \E order \in rglob_orders(tree) :
          rerun' = << get_image_files_in(order, tree, source) >>
    /\ UNCHANGED << source, notes, outcome, error, faults, dirErr, dirCollide >>
    /\ UNCHANGED << pc, orgVars, smbVars, inputVars >>
    /\ UNCHANGED << delivered, mkdir_log >>
    /\ UNCHANGED << stale, checks, stale_umount >>

\* The runs followed by a second enumeration, over the source trees of at
\* most MaxEnumFiles entries.
InitEnum == Init /\ Len(tree) <= MaxEnumFiles

NextEnum == Next \/ EnumerateAgain

SpecEnum == InitEnum /\ [][NextEnum]_vars

\* The runs in which a notification may fail to be delivered, over the
\* source trees of at most MaxNotifyFiles entries.
InitNotify == Init /\ Len(tree) <= MaxNotifyFiles

NextNotify == Next \/ SendMessageRaises

SpecNotify == InitNotify /\ [][NextNotify]_vars

----------------------------------------------------------------------------
\* Helpers of the properties.
Range(seq) == { seq[k] : k \in 1..Len(seq) }

RECURSIVE SumOver(_, _)
SumOver(f, S) ==
    IF S = {} THEN 0
    ELSE LET x == CHOOSE y \in S : TRUE IN f[x] + SumOver(f, S \ {x})

SumCounts(counts) == SumOver(counts, DOMAIN counts)

SelectedShares == { Destinations(dest_filter)[k].share :
                      k \in 1..Len(Destinations(dest_filter)) }

\* The loop of organize_photos is over.
AfterLoop ==
    pc \notin {"send_start", "temp_dir", "crashed", "organize", "organize_loop"}

\* The source is what it was when the run started.
SourceIntact == source = { [path |-> k, file |-> tree[k]] : k \in 1..Len(tree) }

\* The files copied whole into the temporary folder.
Organized == { f \in organized_files : f.complete }

----------------------------------------------------------------------------
\* C1 (as stated): once provisioning or copying a file has failed in
\* organize_photos, no later file is processed, no share is mounted and
\* the run ends Failed, never Completed.
C1_FileFailureAbortsRun ==
    firstFail # 0 =>
        /\ i = firstFail + 1
        /\ mount_log = <<>>
        /\ "success" \notin Range(notes)
        /\ (pc = "done" => outcome = "Failed")

\* C1 (amended): a failed file is skipped.  Once the loop is over every
\* later file has been processed, the copy to the destinations has been
\* started, and the run has failed only if copy_to_destinations raised;
\* if every destination returned True the run ends Completed.
C1_FileFailureIsSkipped ==
    firstFail # 0 =>
        /\ (AfterLoop => i = Len(image_files) + 1)
        /\ (pc \in {"copy_result", "success", "except", "finally", "done"}
              => mount_log # <<>>)
        /\ (pc \in {"except", "finally", "done"} /\ outcome # "Completed"
              => error = "Failed to copy" /\ ~success)
        /\ (pc = "done" /\ success => outcome = "Completed")

\* C1 witness: the first of several files failed and the run ended
\* Completed with a destination shipped.
C1_Witness ==
    /\ pc = "done"
    /\ firstFail = 1
    /\ Len(image_files) >= 2
    /\ outcome = "Completed"
    /\ \E s \in Shares : remote[s].files # {}

\* C2: after rsync to the second destination has failed, the shares stay
\* as the failure left them (nothing more is shipped, the first share
\* keeps what it was given), the loop does not advance, nothing else is
\* mounted, and the run ends Failed with the error notification.
C2_SecondDestinationFailureAborts ==
    (shipFail # <<>> /\ shipFail[1].dest = 2) =>
        /\ remote = shipFail[1].remote
        /\ remote[all_destinations[1].share].files =
              (IF all_destinations[1].share \in found_existing
               THEN {} ELSE organized_files)
        /\ d = 2
        /\ mount_log = << all_destinations[1].share, all_destinations[2].share >>
        /\ "success" \notin Range(notes)
        /\ outcome # "Completed"
        /\ (pc = "done" => outcome = "Failed" /\ notes = << "start", "error" >>)

\* C2 witness: the run is over, rsync to the second destination failed
\* with no file shipped, and the first destination holds its files.
C2_Witness ==
    /\ pc = "done"
    /\ shipFail # <<>>
    /\ shipFail[1].dest = 2
    /\ remote[all_destinations[2].share].files = {}
    /\ remote[all_destinations[1].share].files # {}
    /\ outcome = "Failed"

\* C3 (as stated): in a Completed run every enumerated file is, whole, on
\* every selected share.
C3_CompletedMeansAllShipped ==
    outcome = "Completed" =>
        \A s \in SelectedShares : \A k \in Range(image_files) :
            \E f \in remote[s].files : f.src = k /\ f.complete

\* C3 (amended): in a Completed run every enumerated file has been
\* attempted, every selected share has been mounted once, in order, and
\* returned True, and every file copied whole into the temporary folder is
\* on every selected share whose run folder was not already there; such a
\* share holds exactly the temporary folder's files, the others nothing.
C3_CompletedMeansAllAttempted ==
    outcome = "Completed" =>
        /\ i = Len(image_files) + 1
        /\ success
        /\ mount_log = [k \in 1..Len(Destinations(dest_filter)) |->
                          Destinations(dest_filter)[k].share]
        /\ \A s \in SelectedShares \ found_existing :
              /\ remote[s].files = organized_files
              /\ \A g \in Organized : g \in remote[s].files
        /\ \A s \in found_existing : remote[s].files = {}

\* C3 witness: a Completed run over two shares with a file shipped.
C3_Witness ==
    /\ outcome = "Completed"
    /\ dest_filter = "both"
    /\ found_existing = {}
    /\ firstFail = 0
    /\ Cardinality(Organized) >= 2
    /\ \A s \in Shares : remote[s].files = organized_files

C5_BreakdownSumsToTotal ==
    stats # <<>> =>
        SumCounts(stats[1].date_breakdown) = stats[1].total_photos

\* C6: the source directory holds, in every state of the run, the files
\* it held at the start.
C6_SourceUntouched == SourceIntact

\* C6 witness: a run that organized, shipped and cleaned up, and a source
\* that is not empty.
C6_Witness ==
    /\ pc = "done"
    /\ source # {}
    /\ organized_folder
    /\ ~top_level
    /\ \E s \in Shares : remote[s].files # {}

\* C7 (as stated): when a call of copy_folder_to_smb that mounted its
\* share has returned, the share is not mounted.
C7_ShareReleasedOnReturn ==
    (pc = "copy_result" /\ didMount) => ~mounted[Share]

\* C7 (amended): when a call that mounted its share has returned, the
\* finally block has run umount, and the lazy umount if that failed; the
\* share is still mounted exactly when both commands failed.
C7_ReleaseAttemptedOnReturn ==
    (pc = "copy_result" /\ didMount) =>
        /\ umount_log \in { << "umount ok" >>,
                            << "umount failed", "lazy ok" >>,
                            << "umount failed", "lazy failed" >> }
        /\ mounted[Share] <=> (umount_log = << "umount failed", "lazy failed" >>)

\* C7 witness: a call that found the run's folder on the share has
\* returned with the share unmounted.
C7_Witness ==
    /\ pc = "copy_result"
    /\ didMount
    /\ Share \in found_existing
    /\ ~mounted[Share]

\* C8: when the source has no image file, no share is mounted or written,
\* and the run ends Failed, with the no-images error once the enumeration
\* has been reached (the temporary run folder could be created).
C8_NoImagesNoRemoteCall ==
    get_image_files(tree, source) = <<>> =>
        /\ mount_log = <<>>
        /\ \A s \in Shares : ~mounted[s] /\ remote[s] = AbsentRemote(DestOf(s))
        /\ "success" \notin Range(notes)
        /\ (pc \in {"except", "finally", "done"} /\ top_level
              => error = "no images found")
        /\ (pc = "done" => outcome = "Failed" /\ notes = << "start", "error" >>)

\* C8 witness: a run over a source with files, none of them an image, is
\* over.
C8_Witness ==
    /\ pc = "done"
    /\ tree # <<>>
    /\ image_files = <<>>
    /\ error = "no images found"

\* C9: a resolution returns the desired name when the dated folder does
\* not hold it, and otherwise stem_k for the least k >= 1 the folder does
\* not hold; three files IMG_0001.jpg of one date, all copied, are named
\* IMG_0001.jpg, IMG_0001_1.jpg and IMG_0001_2.jpg in that order.
SameThree ==
    /\ Len(tree) = 3
    /\ \A k \in 1..3 :
         tree[k] = [stem |-> <<"IMG_0001">>, suffix |-> ".jpg",
                    date |-> "2024-05-01"]

C9_SmallestFreeName ==
    /\ lastResolve # NoResolve =>
         LET r == lastResolve
             cand(k) == [stem |-> Append(r.desired.stem, k),
                         suffix |-> r.desired.suffix]
         IN  /\ (r.desired \notin r.dir => r.result = r.desired)
             /\ (r.desired \in r.dir =>
                   \E k \in 1..Cardinality(r.dir) :
                      /\ r.result = cand(k)
                      /\ cand(k) \notin r.dir
                      /\ \A j \in 1..(k - 1) : cand(j) \in r.dir)
    /\ (SameThree /\ pc = "copy" /\ firstFail = 0) =>
         \A f \in temp_files :
            f.name = [stem |-> (IF f.src = 1 THEN <<"IMG_0001">>
                                ELSE <<"IMG_0001", f.src - 1>>),
                      suffix |-> ".jpg"]

\* C9 witness: the third of three files IMG_0001.jpg has been resolved.
C9_Witness ==
    /\ SameThree
    /\ pc = "copy"
    /\ firstFail = 0
    /\ Cardinality(temp_files) = 3
    /\ lastResolve.result = [stem |-> <<"IMG_0001", 2>>, suffix |-> ".jpg"]

\* A collision alone never fails the run.
CollisionAbsorbed ==
    (dirCollide /\ faults = 0 /\ pc = "done") => outcome = "Completed"

\* C10 (as stated): a collision is absorbed, and every other mkdir error
\* keeps the run from completing.
C10_OtherMkdirErrorAborts ==
    /\ CollisionAbsorbed
    /\ dirErr # <<>> =>
          /\ outcome # "Completed"
          /\ (pc = "done" => outcome = "Failed")

\* C10 (amended): a collision is absorbed; an error creating the temporary
\* run folder, the remote base path or the remote run folder aborts the
\* run, with nothing shipped to that share; an error creating a dated
\* folder in organize_photos only skips the file, the loop goes on, and a
\* run with no other failure ends Completed.
C10_DatedFolderErrorIsSkipped ==
    /\ CollisionAbsorbed
    /\ (\E k \in 1..Len(dirErr) :
           dirErr[k] \in {"top_level", "base_path", "final_dest"}) =>
          /\ outcome # "Completed"
          /\ (pc = "done" => outcome = "Failed")
          /\ (dirErr[Len(dirErr)] # "top_level" =>
                remote[Share].files = {} /\ Len(mount_log) = d)
          /\ (dirErr[Len(dirErr)] = "top_level" => mount_log = <<>>)
    /\ "date_folder" \in Range(dirErr) =>
          /\ (AfterLoop => i = Len(image_files) + 1)
          /\ (Len(dirErr) = faults /\ Range(dirErr) = {"date_folder"}
              /\ pc = "done" => outcome = "Completed")

\* C10 witness: the base path was already on the share, creating the
\* run's folder failed, and the run ended Failed.
C10_Witness ==
    /\ pc = "done"
    /\ dirCollide
    /\ dirErr = << "final_dest" >>
    /\ outcome = "Failed"

----------------------------------------------------------------------------
\* C11: a failure to deliver a notification never fails the run: a step
\* that sends a notification, delivered or not, takes main to the same
\* next step with the same outcome, and changes neither the error, the
\* source, the temporary folder nor any share; a run is Failed only for
\* an error of the organize or copy steps.
C11_DeliveryFailureNeverFailsRun ==
    /\ [](outcome = "Failed" => error # "")
    /\ [][ Len(delivered') = Len(delivered) + 1 =>
             /\ pc' = (IF pc = "send_start" THEN "temp_dir" ELSE "finally")
             /\ outcome' = (CASE pc = "send_start" -> outcome
                              [] pc = "success" -> "Completed"
                              [] pc = "except" -> "Failed")
             /\ UNCHANGED << error, source, faults, orgVars, smbVars >> ]_vars

\* C11 witness: neither the start nor the success notification was
\* delivered, and the run shipped its files and ended Completed.
C11_Witness ==
    /\ pc = "done"
    /\ delivered = << FALSE, FALSE >>
    /\ notes = << "start", "success" >>
    /\ outcome = "Completed"
    /\ \E s \in SelectedShares : remote[s].files # {}

----------------------------------------------------------------------------
\* The capture dates of the enumerated files, and the enumerated files of
\* one capture date.
EnumeratedDates == { tree[image_files[k]].date : k \in 1..Len(image_files) }
EnumeratedOn(dt) == { k \in 1..Len(image_files) : tree[image_files[k]].date = dt }

\* C12: when organize_photos returns after copying every file without
\* error, total_photos is the number of enumerated files, date_folders the
\* number of distinct capture dates among them, and date_breakdown maps
\* each of these dates to the number of enumerated files of that date.
C12_StatisticsOfCleanRun ==
    (stats # <<>> /\ firstFail = 0) =>
        /\ stats[1].total_photos = Len(image_files)
        /\ stats[1].date_folders = Cardinality(EnumeratedDates)
        /\ DOMAIN stats[1].date_breakdown = EnumeratedDates
        /\ \A dt \in EnumeratedDates :
              stats[1].date_breakdown[dt] = Cardinality(EnumeratedOn(dt))

\* C12 witness: three files dated 05-01, 05-01 and 05-02 were copied
\* without error and the statistics are 3 photos, 2 folders, 2 and 1.
C12_Witness ==
    /\ stats # <<>>
    /\ firstFail = 0
    /\ Len(image_files) = 3
    /\ stats[1].total_photos = 3
    /\ stats[1].date_folders = 2
    /\ \E a, b \in Dates :
          /\ a # b
          /\ stats[1].date_breakdown = (a :> 2) @@ (b :> 1)

----------------------------------------------------------------------------
\* The first run called get_image_files.
Enumerated ==
    /\ pc \notin {"send_start", "temp_dir", "organize", "crashed"}
    /\ "top_level" \notin Range(dirErr)

\* C13 (as stated): a second enumeration of the unchanged source tree
\* returns the same files in the same order as the first, and the names
\* given to the files, disambiguated ones included, are the same in both.
C13_EnumerationOrderStable ==
    (rerun # <<>> /\ Enumerated) =>
        /\ SourceIntact
        /\ rerun[1] = image_files
        /\ assign_names(rerun[1], 1, {}) = assign_names(image_files, 1, {})

----------------------------------------------------------------------------
\* The number of mkdir calls issued for one path.
Attempts(at, path) ==
    Cardinality({ k \in 1..Len(mkdir_log) :
                    mkdir_log[k] = [at |-> at, path |-> path] })

\* C14 (as stated): within one run no directory path gets more than one
\* create-directory attempt.
C14_OneAttemptPerPath ==
    \A j, k \in 1..Len(mkdir_log) : mkdir_log[j] = mkdir_log[k] => j = k

\* C14 (amended): a dated folder of the temporary run folder gets one
\* create-directory attempt per file of that date the loop has reached,
\* the repeated ones being absorbed as "exists": the mkdir calls of the
\* loop are, in order, those of the dated folders of the files reached.
\* Every other path (the temporary directory, the temporary run folder,
\* and on each share the base path and the run's folder) gets at most one
\* attempt per run.
C14_OneAttemptPerFile ==
    /\ \A k \in 1..(i - 1) :
          /\ k + 2 <= Len(mkdir_log)
          /\ mkdir_log[k + 2] =
                [at |-> "local", path |-> tree[image_files[k]].date]
    /\ Len(mkdir_log) >= 1 =>
          mkdir_log[1] = [at |-> "local", path |-> "temp_dir"]
    /\ Len(mkdir_log) >= 2 =>
          mkdir_log[2] = [at |-> "local", path |-> "top_level"]
    /\ \A k \in (i + 2)..Len(mkdir_log) :
          /\ mkdir_log[k].at # "local"
          /\ \A j \in (i + 2)..(k - 1) : mkdir_log[j] # mkdir_log[k]

\* C14 witness: two files of one date were copied into the same dated
\* folder, which got two create-directory attempts, and the run completed.
C14_Witness ==
    /\ pc = "done"
    /\ outcome = "Completed"
    /\ dirErr = <<>>
    /\ \E dt \in Dates :
          /\ Attempts("local", dt) = 2
          /\ Cardinality({ f \in organized_files : f.date = dt }) = 2

----------------------------------------------------------------------------
\* The mounts of the run that succeeded: a failed mount ends the run, so
\* only the last attempt can have failed.
SessionsOpened ==
    IF mount_log # <<>> /\ ~didMount THEN Len(mount_log) - 1
    ELSE Len(mount_log)

\* C15 (as stated): a run opens at most one session, and a completed run
\* exactly one.
C15_OneSessionPerRun ==
    /\ SessionsOpened <= 1
    /\ outcome = "Completed" => SessionsOpened = 1

\* C15 (amended): a run opens one session per selected destination, in
\* configuration order: the k-th mount is that of the k-th destination,
\* files reach a share only inside its own session, a destination's
\* transfer runs with its share mounted, and a completed run has opened
\* as many sessions as it has destinations.
C15_OneSessionPerDestination ==
    /\ Len(mount_log) <= Len(Destinations(dest_filter))
    /\ \A k \in 1..Len(mount_log) :
          mount_log[k] = Destinations(dest_filter)[k].share
    /\ \A s \in Shares : remote[s].files # {} => s \in Range(mount_log)
    /\ pc \in {"smb_dest", "smb_rsync"} => mounted[Share]
    /\ outcome = "Completed" =>
          SessionsOpened = Len(Destinations(dest_filter))

\* C15 witness: a completed run to both destinations mounted the storage
\* share, released it, then mounted the editing share.
C15_Witness ==
    /\ pc = "done"
    /\ outcome = "Completed"
    /\ Len(mount_log) = 2
    /\ mount_log[1] # mount_log[2]
    /\ \A s \in Shares : remote[s].files # {} /\ ~mounted[s]

----------------------------------------------------------------------------
\* The selected destinations before the k-th one.
Earlier(k) == { Destinations(dest_filter)[j].share : j \in 1..(k - 1) }

\* C16 (as stated): processing is file-major: when no step fails and no
\* run folder was found on a share, a file is on some destination only if
\* every file enumerated before it is on every selected destination.
C16_FileMajor ==
    (faults = 0 /\ found_existing = {}) =>
        \A f, g \in organized_files : \A s, t \in SelectedShares :
            (/\ \E j, k \in 1..Len(image_files) :
                    j < k /\ image_files[j] = f.src /\ image_files[k] = g.src
             /\ g \in remote[s].files)
            => f \in remote[t].files

\* C16 (amended): the file list is enumerated once; every file is first
\* copied into the temporary folder, in enumeration order, before any
\* share is mounted; then the destinations are served one after the other
\* in configuration order, each receiving the whole folder in one
\* transfer, and a destination is mounted only after every earlier one
\* has the whole folder or had the run's folder already.
C16_DestinationMajor ==
    /\ Enumerated => image_files = get_image_files(tree, source)
    /\ pc \in {"send_start", "temp_dir", "organize", "organize_loop"} =>
          /\ mount_log = <<>>
          /\ \A s \in Shares : remote[s].files = {}
          /\ \A f \in temp_files :
                \E k \in 1..(i - 1) : image_files[k] = f.src
    /\ \A s \in Shares :
          (remote[s].files # {} /\ shipFail = <<>>) =>
              remote[s].files = organized_files
    /\ \A k \in 1..Len(mount_log) : \A s \in Earlier(k) :
          \/ s \in found_existing
          \/ remote[s].files = organized_files

\* C16 witness: with both destinations selected, the storage share has
\* the two files of the run while the editing share, not yet mounted, has
\* none.
C16_Witness ==
    /\ pc = "copy"
    /\ d = 2
    /\ Len(mount_log) = 1
    /\ Cardinality(organized_files) = 2
    /\ remote[mount_log[1]].files = organized_files
    /\ \A s \in Shares \ {mount_log[1]} : remote[s].files = {}

----------------------------------------------------------------------------
\* A mkdir call for the path was issued before the k-th one.
AttemptedBefore(k, at, path) ==
    \E j \in 1..(k - 1) : mkdir_log[j] = [at |-> at, path |-> path]

\* C17: a file is in a dated folder of the temporary run folder only when
\* that folder and the run folder exist, and in a run's folder on a share
\* only when that folder and the base path exist and were provisioned in
\* this run; the run folder's mkdir precedes that of any dated folder,
\* and on a share the base path's mkdir precedes the run folder's.
C17_DirectoriesBeforeFiles ==
    /\ \A f \in temp_files : top_level /\ f.date \in date_dirs
    /\ date_dirs # {} => top_level
    /\ \A s \in Shares :
          /\ remote[s].exists => remote[s].base
          /\ remote[s].files # {} =>
                /\ remote[s].exists
                /\ \E k \in 1..Len(mkdir_log) :
                      mkdir_log[k] = [at |-> s, path |-> "final_dest"]
    /\ \A k \in 1..Len(mkdir_log) :
          /\ mkdir_log[k].path \in Dates =>
                AttemptedBefore(k, "local", "top_level")
          /\ mkdir_log[k].path = "final_dest" =>
                \/ mkdir_log[k - 1] =
                      [at |-> mkdir_log[k].at, path |-> "base_path"]
                \/ DestOf(mkdir_log[k].at).path = ""

\* C17 witness: the storage share had neither the base path nor the run's
\* folder; both were created, base path first, and the files shipped.
C17_Witness ==
    /\ \E s \in Shares :
          /\ DestOf(s).path # ""
          /\ Attempts(s, "base_path") = 1
          /\ Attempts(s, "final_dest") = 1
          /\ ~dirCollide
          /\ remote[s].files # {}
          /\ remote[s].base /\ remote[s].exists
    /\ pc = "smb_finally"

----------------------------------------------------------------------------
\* The terminal notifications sent so far.
Terminal == { k \in 1..Len(notes) : notes[k] \in {"success", "error"} }

\* C18 (as stated): a run that sent the start notification sends at most
\* one terminal notification, and exactly one by the time it ends; the
\* success notification is sent only after copy_folder_to_smb returned
\* True for every selected destination.
C18_OneTerminalNotification ==
    /\ Cardinality(Terminal) <= 1
    /\ ("start" \in Range(notes) /\ pc \in {"done", "crashed"}) =>
          Cardinality(Terminal) = 1
    /\ "success" \in Range(notes) =>
          /\ d = Len(Destinations(dest_filter)) + 1
          /\ success
          /\ error = ""

----------------------------------------------------------------------------
\* C19: when copy_folder_to_smb finds the run's folder already on the
\* share, it issues no mkdir for that folder and ships no file into it,
\* the folder stays, the call returns True, and a run all of whose
\* destinations had the folder ends Completed.
C19_ExistingFolderIsSkipped ==
    /\ \A s \in found_existing :
          /\ remote[s].exists
          /\ remote[s].files = {}
          /\ Attempts(s, "final_dest") = 0
    /\ (pc \in {"smb_finally", "copy_result"} /\ Share \in found_existing) =>
          success
    /\ (pc = "done" /\ found_existing = SelectedShares) =>
          outcome = "Completed"

\* C19 witness: both shares had the run's folder; nothing was shipped and
\* the run ended Completed.
C19_Witness ==
    /\ pc = "done"
    /\ dest_filter = "both"
    /\ found_existing = Shares
    /\ organized_files # {}
    /\ \A s \in Shares : remote[s].files = {}
    /\ outcome = "Completed"

----------------------------------------------------------------------------
\* C20 (as stated): once main has entered the organize step, the
\* temporary run folder no longer exists when main returns, whichever way
\* the run ended.
C20_TemporaryFolderRemoved ==
    pc = "done" => ~top_level /\ temp_files = {}

----------------------------------------------------------------------------
\* The outcomes of the umount commands after which a stale mount is gone.
StaleReleased == { << "umount ok" >>, << "umount failed", "lazy ok" >> }

\* C21: copy_folder_to_smb issues the mount command only at a check that
\* finds its mount point not mounted; from a mount point found mounted the
\* call first issues umount (then umount -l) and mounts only after one of
\* them succeeded; the wait loop makes at most 5 checks; when both
\* unmounts fail, or the 5 checks all find the mount point mounted, the
\* call returns False having mounted and copied nothing.
C21_MountOnlyWhenNotMounted ==
    /\ [](checks <= MaxChecks)
    /\ [](\A s \in Range(mount_log) :
             stale[s] = 0 /\ stale_umount[s] \in StaleReleased \cup {<<>>})
    /\ []((pc = "copy_result" /\ Share \notin Range(mount_log)) =>
             /\ ~success
             /\ ~mounted[Share]
             /\ remote[Share] = AbsentRemote(Dest)
             /\ \/ stale_umount[Share] = << "umount failed", "lazy failed" >>
                \/ checks = MaxChecks)
    /\ [][ mount_log' # mount_log =>
             /\ stale[Share] = 0
             /\ pc = "smb_wait" =>
                   checks < MaxChecks /\ stale_umount[Share] \in StaleReleased
         ]_vars
    /\ [][ (pc = "copy" /\ stale[Share] > 0) =>
             /\ mount_log' = mount_log
             /\ remote' = remote
             /\ stale_umount'[Share] # <<>> ]_vars

\* C21 witness: the mount point had two mounts on it; the lazy unmount
\* released one, two checks of the wait loop found it mounted, the third
\* did not, and the share was mounted.
C21_Witness ==
    /\ pc = "smb_dest"
    /\ stale_umount[Share] = << "umount failed", "lazy ok" >>
    /\ checks = 3
    /\ stale[Share] = 0
    /\ mounted[Share]
    /\ mount_log[Len(mount_log)] = Share

====
